---------------------------- MODULE Spec2Model ----------------------------
(***************************************************************************)
(* EdgeOne Pages ZIP deployment (tools/deploy_folder_or_zip.py).           *)
(*                                                                         *)
(* One operation is modelled from its entry point to its result:           *)
(*   - DeployFolderOrZipTool._invoke   (the plugin tool),                  *)
(*   - EdgeOneDeployer.deploy          (the orchestrator called directly), *)
(*   - EdgeOneDeployer._get_or_create_project / _get_cos_temp_token        *)
(*     called on a deployer whose endpoint is already resolved.            *)
(*                                                                         *)
(* Python strings that the code builds, cuts or tests are sequences of     *)
(* tokens (<<"https://", "example.com">>), so that f-strings are \o,       *)
(* str.replace removes occurrences and str.endswith looks at the tail.     *)
(* A missing value (None, absent key) and the empty string are both <<>>   *)
(* where the code only tests truthiness; ids are naturals with 0 for a     *)
(* missing id.  Every remote answer is an input chosen by the platform.    *)
(***************************************************************************)
EXTENDS Integers, Sequences, FiniteSets, TLC

VARIABLES
    pc,                 \* position of the running operation
    entry,              \* which entry point started it
    api_token,          \* EdgeOneDeployer.api_token
    project_name,       \* EdgeOneDeployer.project_name (the name hint)
    base_api_url,       \* EdgeOneDeployer.base_api_url ("" until resolved)
    temp_project_name,  \* EdgeOneDeployer.temp_project_name
    filename,           \* _invoke: zip_file.filename
    file_url,           \* _download_file: file_obj.url
    local_path,         \* deploy: local_path
    environment,        \* deploy: environment
    probeIdx,           \* _check_and_set_base_url: index of the next candidate
    token_body,         \* _get_cos_temp_token: body built so far
    token_result,       \* _upload_to_cos: token_result
    target_path,        \* deploy: target_path (the key returned by _upload_to_cos)
    project_id,         \* deploy: project_id
    deployment_id,      \* deploy: deployment_id
    attempt,            \* _poll_deployment_status: attempt
    deployment_result,  \* deploy: deployment_result
    project,            \* _get_deployment_url: project (the re-fetched one)
    domain,             \* _get_deployment_url: domain
    projects,           \* the platform's projects, in CreatedOn order
    build_polls,        \* the platform: status fetches that see the new deployment in Process
    net,                \* every network call issued, in order
    messages,           \* messages yielded by _invoke, in order
    outcome,            \* how the operation ended: returned url or raised error
    call,               \* the direct stage call in progress
    returns,            \* results of the direct stage calls, in order
    removed,            \* the platform: projects removed by other clients
    peer_pc,            \* a second operation of the same process: its position
    peer_temp_project_name,  \* the second EdgeOneDeployer: self.temp_project_name
    peer_net            \* the platform requests of the second operation, in order

vars == << pc, entry, api_token, project_name, base_api_url, temp_project_name,
           filename, file_url, local_path, environment, probeIdx, token_body,
           token_result, target_path, project_id, deployment_id, attempt,
           deployment_result, project, domain, projects, build_polls, net,
           messages, outcome, call, returns, removed, peer_pc,
           peer_temp_project_name, peer_net >>

\* the state of the platform
platform == << projects, build_polls, removed >>

\* a second deployment operation running in the same process
peer == << peer_pc, peer_temp_project_name, peer_net >>

\* the fields of the EdgeOneDeployer instance
deployer == << api_token, project_name, base_api_url, temp_project_name >>

\* the arguments of _invoke and deploy
args == << filename, file_url, local_path, environment >>

\* the locals of the stages between endpoint resolution and polling
uploadLocals == << token_body, token_result, target_path, project_id, deployment_id >>

\* the locals of polling and URL resolution
urlLocals == << attempt, deployment_result, project, domain >>

-----------------------------------------------------------------------------
(* Bounds of the model *)

MaxProjects == 2      \* projects on the platform before the operation
MaxCalls == 2         \* direct stage calls made on one deployer

-----------------------------------------------------------------------------
(* Program constants *)

base_urls == << "https://pages-api.cloud.tencent.com/v1",
                "https://pages-api.edgeone.ai/v1" >>

max_attempts == 60

TempPrefix == "dify-upload-"

-----------------------------------------------------------------------------
(* Strings as token sequences *)

None == << >>

LowerTok(t) ==
    CASE t = ".ZIP" -> ".zip"
      [] t = "SITE" -> "site"
      [] OTHER -> t

\* str.lower()
lower(s) == [i \in DOMAIN s |-> LowerTok(s[i])]

\* str.endswith(suffix)
endswith(s, suffix) ==
    /\ Len(s) >= Len(suffix)
    /\ SubSeq(s, Len(s) - Len(suffix) + 1, Len(s)) = suffix

\* str.replace(old, new): every occurrence, left to right
RECURSIVE replace(_, _, _)
replace(s, old, new) ==
    IF Len(s) < Len(old) \/ Len(old) = 0 THEN s
    ELSE IF SubSeq(s, 1, Len(old)) = old
         THEN new \o replace(SubSeq(s, Len(old) + 1, Len(s)), old, new)
         ELSE << Head(s) >> \o replace(Tail(s), old, new)

\* os.path.basename(path): what follows the last "/"
RECURSIVE basename(_)
basename(p) ==
    IF \E i \in DOMAIN p : p[i] = "/"
    THEN basename(Tail(p))
    ELSE p

\* os.path.join(temp_dir, filename)
pathjoin(dir, name) == dir \o << "/" >> \o name


-----------------------------------------------------------------------------
(* Inputs *)

Filenames == { << "site", ".zip" >>, << "SITE", ".ZIP" >>, << "site", ".txt" >> }

FileUrls == { None, << "https://", "files.example/site" >> }

NoFile == [present |-> FALSE, filename |-> None, url |-> None]

\* tool_parameters["zip_file"]
ZipFiles ==
    { NoFile } \cup
    { [present |-> TRUE, filename |-> f, url |-> u] : f \in Filenames, u \in FileUrls }

Absent == "<absent>"

\* tool_parameters["environment"]
EnvironmentParams == { Absent, "Production", "Preview" }

Environments == { "Production", "Preview" }

\* credentials["api_token"]
ApiTokens == { None, << "tok" >> }

\* credentials["project_name"]
NameHints == { None, << "blog" >> }

ProjectNames == { << "blog" >>, << "shop" >> }

\* int(time.time()) when the deployer is constructed
Times == { "1700000000" }

TempDir == << "/", "tmp", "/", "tmpdir" >>

\* local paths handed to deploy() by a direct caller
LocalPaths == { pathjoin(TempDir, f) : f \in Filenames }

\* The platform's projects before the operation; ids follow creation order.
InitialProjects ==
    UNION { { [i \in 1..n |-> [ProjectId |-> i, Name |-> names[i]]] :
                names \in [1..n -> ProjectNames] } : n \in 0..MaxProjects }

-----------------------------------------------------------------------------
(* Messages of the tool and results of an operation *)

Text(t) == [type |-> "text", text |-> t]

JsonSuccess(url, env, name) ==
    [type |-> "json", success |-> TRUE, url |-> url, environment |-> env,
     kind |-> "zip_deployment",
     message |-> << "ZIP file " >> \o name \o << " deployed successfully to EdgeOne Pages" >>]

JsonFailure(msg) ==
    [type |-> "json", success |-> FALSE, error |-> msg, kind |-> "zip_deployment"]

NoOutcome == [kind |-> "none", value |-> None]

NoCall == [stage |-> "", from |-> 0, before |-> << >>]

\* An exception leaves the operation: _invoke's except clause reports it,
\* a direct caller of deploy() or of a stage receives it.
Raise(msg) ==
    /\ pc' = IF entry = "stage" THEN "returned" ELSE "done"
    /\ outcome' = IF entry = "stage" THEN outcome
                  ELSE [kind |-> "raised", value |-> msg]
    /\ messages' = IF entry = "_invoke"
                   THEN messages \o << Text(<< "Deployment failed: " >> \o msg),
                                       JsonFailure(msg) >>
                   ELSE messages
    /\ returns' = IF entry = "stage"
                  THEN Append(returns, [stage |-> call.stage, kind |-> "raised",
                                        value |-> msg, from |-> call.from,
                                        to |-> Len(net'), before |-> call.before])
                  ELSE returns
    /\ call' = NoCall

\* deploy() returns url: _invoke reports success, a direct caller receives it.
ReturnUrl(url) ==
    /\ pc' = "done"
    /\ outcome' = [kind |-> "returned", value |-> url]
    /\ messages' = IF entry = "_invoke"
                   THEN messages \o << Text(<< "Deployment completed successfully!" >>),
                                       Text(<< "Public URL: " >> \o url),
                                       JsonSuccess(url, environment, filename) >>
                   ELSE messages
    /\ UNCHANGED << returns, call >>

\* A stage called directly returns value to its caller.
ReturnStage(value) ==
    /\ pc' = "returned"
    /\ returns' = Append(returns, [stage |-> call.stage, kind |-> "returned",
                                   value |-> value, from |-> call.from,
                                   to |-> Len(net'), before |-> call.before])
    /\ call' = NoCall
    /\ UNCHANGED << outcome, messages >>

-----------------------------------------------------------------------------
(* The platform API *)

ApiFailures == { "transport", "non200", "code_nonzero" }

\* the exception _make_api_request raises for a failed request
ApiError(f) ==
    CASE f = "transport" -> << "ConnectionError" >>
      [] f = "non200" -> << "HTTPError" >>
      [] OTHER -> << "API error: ", "Unknown error" >>

NoReply == [Status |-> ""]

\* A network call: what was sent, whether the remote side answered it with
\* success (status 200 and Code 0), and what a successful answer carried.
Request(kind, url, body, ok, reply) ==
    [kind |-> kind, url |-> url, body |-> body, ok |-> ok,
     reply |-> IF ok THEN reply ELSE NoReply]

\* every request posted to the first candidate endpoint
ApiRequestFirstCandidate(body, answer, reply) == Request("api", base_urls[1], body, answer = "ok", reply)

\* requests.post(self.base_api_url, json=body), answered with answer
ApiRequest(body, answer, reply) == Request("api", base_api_url, body, answer = "ok", reply)

\* the ProjectIds of a list of projects
Ids(list) == [i \in DOMAIN list |-> list[i].ProjectId]

\* the Projects the platform lists for the given Filters
Matches(p, filters) ==
    \A i \in DOMAIN filters :
        IF filters[i].Name = "ProjectId" THEN filters[i].Values = << p.ProjectId >>
        ELSE filters[i].Values = << p.Name >>

ListProjects(filters) == SelectSeq(projects, LAMBDA p : Matches(p, filters))

\* the body _describe_projects sends
DescribeBody(pid, name) ==
    [Action |-> "DescribePagesProjects",
     Filters |-> (IF pid # 0 THEN << [Name |-> "ProjectId", Values |-> << pid >>] >> ELSE << >>)
                 \o (IF name # None THEN << [Name |-> "Name", Values |-> << name >>] >> ELSE << >>),
     Offset |-> 0, Limit |-> 10, OrderBy |-> "CreatedOn"]


-----------------------------------------------------------------------------
(* Initial state and entry points *)

NoRecord == [Status |-> "", PreviewUrl |-> None]

NoProject == [ProjectId |-> 0, Name |-> None, CustomDomains |-> << >>, PresetDomain |-> None]

Init ==
    /\ pc = "start"
    /\ entry = ""
    /\ api_token = None
    /\ project_name = None
    /\ base_api_url = ""
    /\ temp_project_name = None
    /\ filename = None
    /\ file_url = None
    /\ local_path = None
    /\ environment = ""
    /\ probeIdx = 1
    /\ token_body = << >>
    /\ token_result = << >>
    /\ target_path = None
    /\ project_id = 0
    /\ deployment_id = 0
    /\ attempt = 0
    /\ deployment_result = NoRecord
    /\ project = NoProject
    /\ domain = None
    /\ projects \in InitialProjects
    /\ build_polls = 0
    /\ net = << >>
    /\ messages = << >>
    /\ outcome = NoOutcome
    /\ call = NoCall
    /\ returns = << >>
    /\ removed = 0
    /\ peer_pc = "start"
    /\ peer_temp_project_name = None
    /\ peer_net = << >>

Goto(p) ==
    /\ pc' = p
    /\ UNCHANGED << outcome, messages, returns, call >>

\* _invoke returns after yielding one text message
ReturnText(t) ==
    /\ pc' = "done"
    /\ messages' = Append(messages, Text(t))
    /\ UNCHANGED << outcome, returns, call >>

\* str.endswith('.zip') of the lowered name
IsZipName(name) == endswith(lower(name), << ".zip" >>)

\* DeployFolderOrZipTool._invoke up to the download of the file
Invoke(zip_file, envParam, token, hint) ==
    /\ pc = "start"
    /\ entry' = "_invoke"
    /\ environment' = IF envParam = Absent THEN "Production" ELSE envParam
    /\ IF ~zip_file.present
       THEN /\ ReturnText(<< "ZIP file is required." >>)
            /\ UNCHANGED << api_token, project_name, filename, file_url >>
       ELSE IF token = None
       THEN /\ ReturnText(<< "API token is required for ZIP deployment." >>)
            /\ UNCHANGED << api_token, project_name, filename, file_url >>
       ELSE /\ api_token' = token
            /\ project_name' = hint
            /\ filename' = zip_file.filename
            /\ IF ~IsZipName(zip_file.filename)
               THEN /\ ReturnText(<< "Only ZIP files are supported for deployment." >>)
                    /\ UNCHANGED file_url
               ELSE /\ pc' = "download"
                    /\ messages' = messages \o
                         << Text(<< "Starting deployment of ZIP file: " >> \o zip_file.filename),
                            Text(<< "Environment: ", environment' >>) >>
                    /\ file_url' = zip_file.url
                    /\ UNCHANGED << outcome, returns, call >>
    /\ UNCHANGED << base_api_url, temp_project_name, local_path, probeIdx,
                    uploadLocals, urlLocals, platform, peer, net >>

\* EdgeOneDeployer.__init__
Construct(token, hint, t) ==
    /\ api_token' = token
    /\ project_name' = hint
    /\ base_api_url' = ""
    /\ temp_project_name' = << TempPrefix, t >>

\* _download_file, then the construction of the deployer and the call of deploy
DownloadFile(ok, t) ==
    /\ pc = "download"
    /\ IF file_url = None
       THEN /\ net' = net
            /\ Raise(<< "File URL not provided" >>)
            /\ UNCHANGED << deployer, local_path >>
       ELSE /\ net' = Append(net, Request("download", file_url, [Action |-> "GET"], ok, NoReply))
            /\ IF ~ok
               THEN /\ Raise(<< "HTTPError" >>)
                    /\ UNCHANGED << deployer, local_path >>
               ELSE /\ local_path' = pathjoin(TempDir, filename)
                    /\ Construct(api_token, project_name, t)
                    /\ Goto("check_base_url")
    /\ UNCHANGED << entry, filename, file_url, environment, probeIdx, uploadLocals,
                    urlLocals, platform, peer >>

\* a direct caller constructs a deployer and calls deploy(path, env)
Deploy(token, hint, path, env, t) ==
    /\ pc = "start"
    /\ entry' = "deploy"
    /\ Construct(token, hint, t)
    /\ local_path' = path
    /\ environment' = env
    /\ Goto("check_base_url")
    /\ UNCHANGED << filename, file_url, probeIdx, uploadLocals, urlLocals, platform, peer, net >>

\* a deployer whose endpoint is resolved, on which stages are called directly
StageDeployer(hint, url, t) ==
    /\ pc = "start"
    /\ entry' = "stage"
    /\ api_token' = << "tok" >>
    /\ project_name' = hint
    /\ base_api_url' = url
    /\ temp_project_name' = << TempPrefix, t >>
    /\ Goto("returned")
    /\ UNCHANGED << args, probeIdx, uploadLocals, urlLocals, platform, peer, net >>

Stages == { "_get_cos_temp_token", "_get_or_create_project" }

StagePc(stage) == IF stage = "_get_cos_temp_token" THEN "cos_token" ELSE "get_project"

\* a direct call of one stage
CallStage(stage) ==
    /\ pc = "returned"
    /\ Len(returns) < MaxCalls
    /\ pc' = StagePc(stage)
    /\ call' = [stage |-> stage, from |-> Len(net), before |-> projects]
    /\ UNCHANGED << entry, deployer, args, probeIdx, uploadLocals, urlLocals,
                    platform, peer, net, messages, outcome, returns >>

-----------------------------------------------------------------------------
(* Endpoint Resolver *)

ProbeAnswers == { "ok", "code_nonzero", "malformed", "non200", "raise" }

ProbeBody == [Action |-> "DescribePagesProjects", PageNumber |-> 1, PageSize |-> 10]

\* a candidate accepted on its status 200 alone
ProbeAcceptedAnyCode(answer) == answer \in { "ok", "code_nonzero" }

\* the candidate answers with status 200 and a body whose Code is 0
ProbeAccepted(answer) == answer = "ok"

InvalidToken == << "Invalid API token. Please check your EdgeOne Pages API token." >>

\* _check_and_set_base_url: one iteration of the loop over base_urls, and the
\* raise that follows the last one
CheckAndSetBaseUrl(answer) ==
    /\ pc = "check_base_url"
    /\ probeIdx <= Len(base_urls)
    /\ net' = Append(net, Request("probe", base_urls[probeIdx], ProbeBody, answer = "ok", NoReply))
    /\ IF ProbeAccepted(answer)
       THEN /\ base_api_url' = base_urls[probeIdx]
            /\ Goto("validate")
            /\ UNCHANGED probeIdx
       ELSE /\ probeIdx' = probeIdx + 1
            /\ UNCHANGED base_api_url
            /\ IF probeIdx = Len(base_urls)
               THEN Raise(InvalidToken)
               ELSE Goto("check_base_url")
    /\ UNCHANGED << entry, api_token, project_name, temp_project_name, args,
                    uploadLocals, urlLocals, platform, peer >>

\* _is_zip_file
is_zip_file(file_path) == endswith(lower(file_path), << ".zip" >>)

Unsupported == << "Only ZIP files are supported" >>

\* the artifact check followed by project selection, the upload left out
ValidateThenProject ==
    /\ pc = "validate"
    /\ net' = net
    /\ IF ~is_zip_file(local_path)
       THEN Raise(Unsupported)
       ELSE Goto("get_project")
    /\ UNCHANGED << entry, deployer, args, probeIdx, uploadLocals, urlLocals, platform, peer >>

\* deploy: the artifact check that follows endpoint resolution
Validate ==
    /\ pc = "validate"
    /\ net' = net
    /\ IF ~is_zip_file(local_path)
       THEN Raise(Unsupported)
       ELSE Goto("cos_token")
    /\ UNCHANGED << entry, deployer, args, probeIdx, uploadLocals, urlLocals, platform, peer >>


-----------------------------------------------------------------------------
(* Project Resolver: storage credentials and project selection *)

ApiAnswers == ApiFailures \cup { "ok" }

Envelope(response) == [Code |-> 0, Data |-> [Response |-> response]]

TargetPaths == { << "tmp-upload/", "a1" >> }

\* the Response of DescribePagesCosTempToken
CosResponses ==
    { [Bucket |-> "pages-bucket", Region |-> "ap-guangzhou", TargetPath |-> tp,
       Credentials |-> [TmpSecretId |-> "id", TmpSecretKey |-> "key", Token |-> "session"]] :
      tp \in TargetPaths }

ProjectNotFound(name) == << "Project " >> \o name \o << " not found" >>

\* _get_cos_temp_token: "if projects", the hinted project exists
HintKnown(found) == found # << >>

\* _get_cos_temp_token: the choice of the body, with the project lookup a
\* name hint asks for
TempTokenLookup(answer) ==
    /\ pc = "cos_token"
    /\ IF project_name # None
       THEN /\ net' = Append(net, ApiRequest(DescribeBody(0, project_name), answer,
                   [ProjectIds |-> Ids(ListProjects(DescribeBody(0, project_name).Filters))]))
            /\ IF answer # "ok"
               THEN /\ Raise(ApiError(answer))
                    /\ UNCHANGED token_body
               ELSE LET found == ListProjects(DescribeBody(0, project_name).Filters)
                    IN  IF HintKnown(found)
                        THEN /\ token_body' = [ProjectId |-> found[1].ProjectId]
                             /\ Goto("cos_token_request")
                        ELSE /\ Raise(ProjectNotFound(project_name))
                             /\ UNCHANGED token_body
       ELSE /\ answer = "ok"
            /\ net' = net
            /\ token_body' = [ProjectName |-> temp_project_name]
            /\ Goto("cos_token_request")
    /\ UNCHANGED << entry, deployer, args, probeIdx, token_result, target_path,
                    project_id, deployment_id, urlLocals, platform, peer >>

\* _get_cos_temp_token: the DescribePagesCosTempToken request; in deploy its
\* result is what _upload_to_cos goes on with
TempTokenRequest(answer, response) ==
    /\ pc = "cos_token_request"
    /\ net' = Append(net, ApiRequest(token_body @@ [Action |-> "DescribePagesCosTempToken"],
                                      answer, [TargetPath |-> response.TargetPath]))
    /\ IF answer # "ok"
       THEN /\ Raise(ApiError(answer))
            /\ UNCHANGED token_result
       ELSE IF entry = "stage"
       THEN /\ ReturnStage(Envelope(response))
            /\ UNCHANGED token_result
       ELSE /\ token_result' = Envelope(response)
            /\ IF token_result'.Code # 0
               THEN Raise(<< "Failed to get COS token: ", "Unknown error" >>)
               ELSE Goto("cos_put")
    /\ UNCHANGED << entry, deployer, args, probeIdx, token_body, target_path,
                    project_id, deployment_id, urlLocals, platform, peer >>

\* the key _upload_to_cos stores the bundle under
UploadKey(tp, path) == tp \o << "/" >> \o basename(path)

\* the prefix returned in place of the key
UploadResultPrefix(tp, key) == tp

\* _upload_to_cos: "return key"
UploadResult(tp, key) == key

\* _upload_to_cos: put_object of the bundle; the key is returned to deploy
CosPut(ok) ==
    /\ pc = "cos_put"
    /\ LET response == token_result.Data.Response
           key == UploadKey(response.TargetPath, local_path)
       IN  /\ net' = Append(net, Request("put", response.Bucket,
                                         [Action |-> "put_object", Bucket |-> response.Bucket,
                                          Key |-> key], ok, NoReply))
           /\ IF ~ok
              THEN /\ Raise(<< "CosServiceError" >>)
                   /\ UNCHANGED target_path
              ELSE /\ target_path' = UploadResult(response.TargetPath, key)
                   /\ Goto("get_project")
    /\ UNCHANGED << entry, deployer, args, probeIdx, token_body, token_result,
                    project_id, deployment_id, urlLocals, platform, peer >>

\* the bundle uploaded once more after the project was selected
ReturnProjectThenUpload(pid) ==
    IF entry = "stage"
    THEN /\ ReturnStage(pid)
         /\ UNCHANGED project_id
    ELSE /\ project_id' = pid
         /\ Goto("cos_token")

\* _get_or_create_project returns pid: deploy goes on to create the deployment
ReturnProject(pid) ==
    IF entry = "stage"
    THEN /\ ReturnStage(pid)
         /\ UNCHANGED project_id
    ELSE /\ project_id' = pid
         /\ Goto("create_deployment")

\* a lookup whose result is never taken
HintNeverResolved(found) == FALSE

\* _get_or_create_project: "if projects", the hinted project exists
HintResolved(found) == found # << >>

\* _get_or_create_project: the lookup of the hinted project
GetOrCreateProject(answer) ==
    /\ pc = "get_project"
    /\ IF project_name # None
       THEN /\ net' = Append(net, ApiRequest(DescribeBody(0, project_name), answer,
                   [ProjectIds |-> Ids(ListProjects(DescribeBody(0, project_name).Filters))]))
            /\ IF answer # "ok"
               THEN /\ Raise(ApiError(answer))
                    /\ UNCHANGED project_id
               ELSE LET found == ListProjects(DescribeBody(0, project_name).Filters)
                    IN  IF HintResolved(found)
                        THEN ReturnProject(found[1].ProjectId)
                        ELSE /\ Goto("create_project")
                             /\ UNCHANGED project_id
       ELSE /\ answer = "ok"
            /\ net' = net
            /\ Goto("create_project")
            /\ UNCHANGED project_id
    /\ UNCHANGED << entry, deployer, args, probeIdx, token_body, token_result,
                    target_path, deployment_id, urlLocals, platform, peer >>

\* a project always created under the generated name
CreateProjectBodyTempName ==
    [Action |-> "CreatePagesProject", Name |-> temp_project_name,
     Provider |-> "Upload", Channel |-> "Custom", Area |-> "global"]

\* the body _create_project sends
CreateProjectBody ==
    [Action |-> "CreatePagesProject",
     Name |-> IF project_name # None THEN project_name ELSE temp_project_name,
     Provider |-> "Upload", Channel |-> "Custom", Area |-> "global"]

\* the id the platform gives the next project it creates; ids are not reused
NextProjectId == Len(projects) + removed + 1

\* _create_project; the response carries the new ProjectId or none (0)
CreateProject(answer, withId) ==
    /\ pc = "create_project"
    /\ LET pid == IF withId THEN NextProjectId ELSE 0 IN
       /\ net' = Append(net, ApiRequest(CreateProjectBody, answer, [ProjectId |-> pid]))
       /\ IF answer # "ok"
          THEN /\ ~withId
               /\ Raise(ApiError(answer))
               /\ UNCHANGED << project_id, projects >>
          ELSE IF pid = 0
          THEN /\ Raise(<< "Failed to create project" >>)
               /\ UNCHANGED << project_id, projects >>
          ELSE /\ projects' = Append(projects, [ProjectId |-> pid, Name |-> CreateProjectBody.Name])
               /\ ReturnProject(pid)
    /\ UNCHANGED << entry, deployer, args, probeIdx, token_body, token_result,
                    target_path, deployment_id, urlLocals, build_polls, removed, peer >>


-----------------------------------------------------------------------------
(* Deployment Orchestrator: registration and polling *)

\* the body _create_deployment sends
CreateDeploymentBody(pid, path, is_zip, env) ==
    [Action |-> "CreatePagesDeployment", ProjectId |-> pid, ViaMeta |-> "Upload",
     Provider |-> "Upload", Env |-> env,
     DistType |-> IF is_zip THEN "Zip" ELSE "Folder",
     TempBucketPath |-> path]

NewDeploymentId == 1

\* how long the platform may take to build: done at once, after one fetch, at
\* the last fetch the poller makes, or not within its fetches
BuildPolls == { 0, 1, max_attempts - 1, max_attempts }

\* _create_deployment; did is the DeploymentId of the response, 0 when it has
\* none; the platform builds the new deployment for polls status fetches
CreateDeployment(answer, did, polls) ==
    /\ pc = "create_deployment"
    /\ net' = Append(net, ApiRequest(CreateDeploymentBody(project_id, target_path, TRUE, environment),
                                   answer, [DeploymentId |-> did]))
    /\ IF answer # "ok"
       THEN /\ polls = 0
            /\ Raise(ApiError(answer))
            /\ UNCHANGED << deployment_id, attempt, build_polls >>
       ELSE IF did = 0
       THEN /\ polls = 0
            /\ Raise(<< "Failed to create deployment" >>)
            /\ UNCHANGED << deployment_id, attempt, build_polls >>
       ELSE /\ deployment_id' = did
            /\ build_polls' = polls
            /\ attempt' = 0
            /\ Goto("poll")
    /\ UNCHANGED << entry, deployer, args, probeIdx, token_body, token_result,
                    target_path, project_id, deployment_result, project, domain,
                    projects, removed, peer >>

Statuses == { "Process", "Success", "Failed" }

PreviewUrls == { None, << "https://", "preview123.pages.dev" >>, << "preview123.pages.dev" >> }

\* an older deployment of the project, listed before the new one
OtherDeployment ==
    [DeploymentId |-> 2, Status |-> "Success", PreviewUrl |-> << "https://", "old.pages.dev" >>]

\* the new deployment as a page can show it; a successful one exposes a PreviewUrl
DeploymentViews ==
    { [DeploymentId |-> NewDeploymentId, Status |-> "Process", PreviewUrl |-> None],
      [DeploymentId |-> NewDeploymentId, Status |-> "Failed", PreviewUrl |-> None] } \cup
    { [DeploymentId |-> NewDeploymentId, Status |-> "Success", PreviewUrl |-> u] :
        u \in PreviewUrls }

\* the pages DescribePagesDeployments may answer with
DeploymentPages ==
    { << >>, << OtherDeployment >> } \cup { << OtherDeployment, d >> : d \in DeploymentViews }

\* the platform shows the new deployment in Process on its first build_polls
\* status fetches and in a terminal status from then on
Showable(page, fetched) ==
    \A i \in DOMAIN page :
        page[i].DeploymentId = NewDeploymentId =>
            (page[i].Status = "Process" <=> fetched < build_polls)

\* the body _get_deployment_status sends
DeploymentsBody(pid) ==
    [Action |-> "DescribePagesDeployments", ProjectId |-> pid, Offset |-> 0,
     Limit |-> 50, OrderBy |-> "CreatedOn", Order |-> "Desc"]

\* the search that takes any entry of the page
FoundAtAnyId(page, did) == DOMAIN page

\* the for loop of _get_deployment_status: positions of the entries with the id
FoundAt(page, did) == { i \in DOMAIN page : page[i].DeploymentId = did }

Min(S) == CHOOSE x \in S : \A y \in S : x <= y

\* the Status of the deployment on the page a status fetch was answered with
SeenStatus(answer, page, did) ==
    LET listed == { i \in DOMAIN page : page[i].DeploymentId = did }
    IN  IF answer = "ok" /\ listed # { } THEN page[Min(listed)].Status ELSE ""

\* a loop that allows one turn more
PollAgainInclusive(n) == n <= max_attempts

\* the loop condition of _poll_deployment_status
PollAgain(n) == n < max_attempts

Timeout == << "Deployment timeout" >>

\* polling that goes on until the deployment has succeeded
StillNotSuccess(deployment) == deployment.Status # "Success"

\* the test that ends polling
StillProcessing(deployment) == deployment.Status = "Process"

\* _poll_deployment_status: one turn of the loop (with its
\* _get_deployment_status), or the raise after the loop
Poll(answer, page) ==
    /\ pc = "poll"
    /\ IF PollAgain(attempt)
       THEN /\ Showable(page, attempt)
            /\ net' = Append(net, ApiRequest(DeploymentsBody(project_id), answer,
                                   [Status |-> SeenStatus(answer, page, deployment_id)]))
            /\ IF answer # "ok"
               THEN /\ Raise(ApiError(answer))
                    /\ UNCHANGED << attempt, deployment_result >>
               ELSE IF FoundAt(page, deployment_id) = { }
               THEN /\ Raise(<< "Deployment ", deployment_id, " not found" >>)
                    /\ UNCHANGED << attempt, deployment_result >>
               ELSE LET deployment == page[Min(FoundAt(page, deployment_id))]
                    IN  IF ~StillProcessing(deployment)
                        THEN /\ deployment_result' =
                                  [Status |-> deployment.Status, PreviewUrl |-> deployment.PreviewUrl]
                             /\ Goto("get_url")
                             /\ UNCHANGED attempt
                        ELSE /\ attempt' = attempt + 1
                             /\ Goto("poll")
                             /\ UNCHANGED deployment_result
       ELSE /\ answer = "ok"
            /\ page = << >>
            /\ net' = net
            /\ Raise(Timeout)
            /\ UNCHANGED << attempt, deployment_result >>
    /\ UNCHANGED << entry, deployer, args, probeIdx, uploadLocals, project, domain,
                    platform, peer >>

-----------------------------------------------------------------------------
(* URL Resolver *)

DomainEntries ==
    { [Domain |-> << "example.com" >>, Status |-> "Pass"],
      [Domain |-> << "www.example.com" >>, Status |-> "Pass"],
      [Domain |-> << "pending.example.com" >>, Status |-> "Pending"] }

\* the CustomDomains of the re-fetched project
CustomDomainLists ==
    { << >> } \cup { << d >> : d \in DomainEntries } \cup
    { q \in DomainEntries \X DomainEntries : q[1] # q[2] }

PresetDomains == { None, << "preset.edgeone.app" >> }

\* positions of the verified custom domains
Verified(domains) == { i \in DOMAIN domains : domains[i].Status = "Pass" }

\* the last verified custom domain in place of the first
CustomDomainForLast(env, domains) ==
    IF env = "Production" /\ domains # << >> /\ Verified(domains) # { }
    THEN domains[CHOOSE i \in Verified(domains) : \A j \in Verified(domains) : j <= i].Domain
    ELSE None

\* a verified custom domain used in every environment
CustomDomainAnyEnv(env, domains) ==
    IF domains # << >> /\ Verified(domains) # { }
    THEN domains[Min(Verified(domains))].Domain
    ELSE None

\* the custom domain _get_deployment_url returns for the environment, or None
CustomDomainFor(env, domains) ==
    IF env = "Production" /\ domains # << >> /\ Verified(domains) # { }
    THEN domains[Min(Verified(domains))].Domain
    ELSE None

\* the preset domain taken before the PreviewUrl
FallbackDomainPresetFirst(previewUrl, preset) ==
    IF preset # None THEN preset ELSE replace(previewUrl, << "https://" >>, << >>)

\* PreviewUrl without "https://", or the preset domain
FallbackDomain(previewUrl, preset) ==
    LET stripped == replace(previewUrl, << "https://" >>, << >>)
    IN  IF stripped # None THEN stripped ELSE preset

SignedUrl(d, token, timestamp) ==
    << "https://" >> \o d \o << "?eo_token=" >> \o token \o << "&eo_time=" >> \o timestamp

\* any terminal status taken for success
SucceededAnyTerminal(deployment) == deployment.Status # "Process"

\* _get_deployment_url: the deployment handed over by the poller succeeded
Succeeded(deployment) == deployment.Status = "Success"

DeploymentFailed(status) == << "Deployment failed with status: ", status >>

\* _get_deployment_url up to the choice of the domain: the status check, the
\* re-fetch of the project and the custom domain of a Production deployment
GetDeploymentUrl(answer, customDomains, preset) ==
    /\ pc = "get_url"
    /\ IF ~Succeeded(deployment_result)
       THEN /\ answer = "ok" /\ customDomains = << >> /\ preset = None
            /\ net' = net
            /\ Raise(DeploymentFailed(deployment_result.Status))
            /\ UNCHANGED << project, domain >>
       ELSE /\ net' = Append(net, ApiRequest(DescribeBody(project_id, None), answer,
                   [ProjectIds |-> Ids(ListProjects(DescribeBody(project_id, None).Filters)),
                    CustomDomains |-> customDomains, PresetDomain |-> preset]))
            /\ IF answer # "ok"
               THEN /\ customDomains = << >> /\ preset = None
                    /\ Raise(ApiError(answer))
                    /\ UNCHANGED << project, domain >>
               ELSE LET found == ListProjects(DescribeBody(project_id, None).Filters)
                    IN  IF found = << >>
                        THEN /\ customDomains = << >> /\ preset = None
                             /\ Raise(<< "Failed to get project details" >>)
                             /\ UNCHANGED << project, domain >>
                        ELSE /\ project' = [ProjectId |-> found[1].ProjectId,
                                            Name |-> found[1].Name,
                                            CustomDomains |-> customDomains,
                                            PresetDomain |-> preset]
                             /\ IF CustomDomainFor(environment, customDomains) # None
                                THEN /\ ReturnUrl(<< "https://" >> \o
                                                  CustomDomainFor(environment, customDomains))
                                     /\ UNCHANGED domain
                                ELSE /\ domain' = FallbackDomain(deployment_result.PreviewUrl, preset)
                                     /\ IF domain' = None
                                        THEN Raise(<< "Failed to get deployment domain" >>)
                                        ELSE Goto("encipher_token")
    /\ UNCHANGED << entry, deployer, args, probeIdx, uploadLocals, attempt,
                    deployment_result, platform, peer >>

Tokens == { None, << "abc" >> }

Timestamps == { None, << "1700000000" >> }

\* the body _get_encipher_token sends
EncipherBody(d) == [Action |-> "DescribePagesEncipherToken", Text |-> d]

\* _get_deployment_url: the signed URL of the preview or preset domain
EncipherToken(answer, token, timestamp) ==
    /\ pc = "encipher_token"
    /\ net' = Append(net, ApiRequest(EncipherBody(domain), answer,
                                      [Token |-> token, Timestamp |-> timestamp]))
    /\ IF answer # "ok"
       THEN /\ token = None /\ timestamp = None
            /\ Raise(ApiError(answer))
       ELSE IF token = None \/ timestamp = None
       THEN Raise(<< "Failed to get access token" >>)
       ELSE ReturnUrl(SignedUrl(domain, token, timestamp))
    /\ UNCHANGED << entry, deployer, args, probeIdx, uploadLocals, urlLocals, platform, peer >>

-----------------------------------------------------------------------------
(* Specification *)

Next ==
    \/ \E z \in ZipFiles, e \in EnvironmentParams, t \in ApiTokens, h \in NameHints :
          Invoke(z, e, t, h)
    \/ \E ok \in BOOLEAN, t \in Times : DownloadFile(ok, t)
    \/ \E tk \in ApiTokens \ { None }, h \in NameHints, p \in LocalPaths,
          e \in Environments, t \in Times : Deploy(tk, h, p, e, t)
    \/ \E h \in NameHints, i \in DOMAIN base_urls, t \in Times :
          StageDeployer(h, base_urls[i], t)
    \/ \E st \in Stages : CallStage(st)
    \/ \E a \in ProbeAnswers : CheckAndSetBaseUrl(a)
    \/ Validate
    \/ \E a \in ApiAnswers : TempTokenLookup(a)
    \/ \E a \in ApiAnswers, r \in CosResponses : TempTokenRequest(a, r)
    \/ \E ok \in BOOLEAN : CosPut(ok)
    \/ \E a \in ApiAnswers : GetOrCreateProject(a)
    \/ \E a \in ApiAnswers, withId \in BOOLEAN : CreateProject(a, withId)
    \/ \E a \in ApiAnswers, did \in { 0, NewDeploymentId }, k \in BuildPolls :
          CreateDeployment(a, did, k)
    \/ \E a \in ApiAnswers, pg \in DeploymentPages : Poll(a, pg)
    \/ \E a \in ApiAnswers, cd \in CustomDomainLists, pd \in PresetDomains :
          GetDeploymentUrl(a, cd, pd)
    \/ \E a \in ApiAnswers, tk \in Tokens, ts \in Timestamps : EncipherToken(a, tk, ts)

Spec == Init /\ [][Next]_vars

-----------------------------------------------------------------------------
(* The platform changed by its other clients *)

MaxRemoved == 1       \* projects other clients remove during the operation

\* Another client removes the i-th project.  deploy sees the platform's
\* projects through its lookups only: the hinted name is looked up once by
\* _get_cos_temp_token and once more by _get_or_create_project, and the
\* removal happens between the two.
RemoveProject(i) ==
    /\ pc = "get_project"
    /\ project_name # None
    /\ removed < MaxRemoved
    /\ i \in DOMAIN projects
    /\ projects' = SubSeq(projects, 1, i - 1) \o SubSeq(projects, i + 1, Len(projects))
    /\ removed' = removed + 1
    /\ UNCHANGED << pc, entry, deployer, args, probeIdx, uploadLocals, urlLocals,
                    build_polls, net, messages, outcome, call, returns, peer >>

\* deploy called directly, on a platform that other clients change
NextEnv ==
    \/ \E tk \in ApiTokens \ { None }, h \in NameHints, p \in LocalPaths, e \in Environments, t \in Times : Deploy(tk, h, p, e, t)
    \/ \E a \in ProbeAnswers : CheckAndSetBaseUrl(a)
    \/ Validate
    \/ \E a \in ApiAnswers : TempTokenLookup(a)
    \/ \E a \in ApiAnswers, r \in CosResponses : TempTokenRequest(a, r)
    \/ \E ok \in BOOLEAN : CosPut(ok)
    \/ \E i \in 1 .. MaxProjects : RemoveProject(i)
    \/ \E a \in ApiAnswers : GetOrCreateProject(a)
    \/ \E a \in ApiAnswers, withId \in BOOLEAN : CreateProject(a, withId)
    \/ \E a \in ApiAnswers, did \in { 0, NewDeploymentId }, k \in BuildPolls : CreateDeployment(a, did, k)
    \/ \E a \in ApiAnswers, pg \in DeploymentPages : Poll(a, pg)
    \/ \E a \in ApiAnswers, cd \in CustomDomainLists, pd \in PresetDomains : GetDeploymentUrl(a, cd, pd)
    \/ \E a \in ApiAnswers, tk \in Tokens, ts \in Timestamps : EncipherToken(a, tk, ts)

SpecEnv == Init /\ [][NextEnv]_vars

-----------------------------------------------------------------------------
(* Two operations in one process *)

\* int(time.time()) when the second deployer is constructed: the second of
\* the first deployer's construction or the one after it
PeerTimes == Times \cup { "1700000001" }

\* a platform request of the second operation
PeerRequest(body, answer) == [body |-> body, ok |-> answer = "ok"]

\* EdgeOneDeployer.__init__ of the second operation, which has no name hint
PeerConstruct(t) ==
    /\ peer_pc = "start"
    /\ peer_temp_project_name' = << TempPrefix, t >>
    /\ peer_pc' = "cos_token"
    /\ UNCHANGED << pc, entry, deployer, args, probeIdx, uploadLocals, urlLocals,
                    platform, net, messages, outcome, call, returns, peer_net >>

\* _get_cos_temp_token of the second operation
PeerTempToken(answer) ==
    /\ peer_pc = "cos_token"
    /\ peer_net' = Append(peer_net,
                          PeerRequest([Action |-> "DescribePagesCosTempToken",
                                       ProjectName |-> peer_temp_project_name], answer))
    /\ peer_pc' = IF answer = "ok" THEN "create_project" ELSE "done"
    /\ UNCHANGED << pc, entry, deployer, args, probeIdx, uploadLocals, urlLocals,
                    platform, net, messages, outcome, call, returns,
                    peer_temp_project_name >>

\* _create_project of the second operation
PeerCreateProject(answer) ==
    /\ peer_pc = "create_project"
    /\ peer_net' = Append(peer_net,
                          PeerRequest([Action |-> "CreatePagesProject",
                                       Name |-> peer_temp_project_name,
                                       Provider |-> "Upload", Channel |-> "Custom",
                                       Area |-> "global"], answer))
    /\ projects' = IF answer = "ok"
                   THEN Append(projects, [ProjectId |-> NextProjectId,
                                          Name |-> peer_temp_project_name])
                   ELSE projects
    /\ peer_pc' = "done"
    /\ UNCHANGED << pc, entry, deployer, args, probeIdx, uploadLocals, urlLocals,
                    build_polls, removed, net, messages, outcome, call, returns,
                    peer_temp_project_name >>

\* two operations of one process, each with its own deployer, up to the
\* creation of their projects
NextTwo ==
    \/ \E tk \in ApiTokens \ { None }, h \in NameHints, p \in LocalPaths,
          e \in Environments, t \in Times : Deploy(tk, h, p, e, t)
    \/ \E a \in ProbeAnswers : CheckAndSetBaseUrl(a)
    \/ Validate
    \/ \E a \in ApiAnswers : TempTokenLookup(a)
    \/ \E a \in ApiAnswers, r \in CosResponses : TempTokenRequest(a, r)
    \/ \E ok \in BOOLEAN : CosPut(ok)
    \/ \E a \in ApiAnswers : GetOrCreateProject(a)
    \/ \E a \in ApiAnswers, withId \in BOOLEAN : CreateProject(a, withId)
    \/ \E t \in PeerTimes : PeerConstruct(t)
    \/ \E a \in ApiAnswers : PeerTempToken(a)
    \/ \E a \in ApiAnswers : PeerCreateProject(a)

SpecTwo == Init /\ [][NextTwo]_vars


-----------------------------------------------------------------------------
(* What an operation did, read from its network calls *)

\* positions of the platform API requests with the given Action
Calls(action) ==
    { i \in DOMAIN net : net[i].kind = "api" /\ net[i].body.Action = action }

\* positions of the calls of the given kind
OfKind(kind) == { i \in DOMAIN net : net[i].kind = kind }

Raised(msg) == outcome = [kind |-> "raised", value |-> msg]

\* a run of deploy(), from the tool or from a direct caller
InDeploy == entry \in { "_invoke", "deploy" } /\ pc \notin { "start", "download" }

-----------------------------------------------------------------------------
(* C1 *)

\* every candidate endpoint was probed and none answered 200 with Code 0
NoEndpointAccepts ==
    /\ Cardinality(OfKind("probe")) = Len(base_urls)
    /\ \A i \in OfKind("probe") : ~net[i].ok

\* C1: when no candidate endpoint answers the probe with status 200 and
\* Code 0, deploy has failed with the invalid-credential error and has issued
\* no platform API request and no storage upload.
C1_NoEndpointNoStage ==
    NoEndpointAccepts =>
        /\ Raised(InvalidToken)
        /\ pc = "done"
        /\ base_api_url = ""
        /\ OfKind("api") = { }
        /\ OfKind("put") = { }

\* both candidates were probed with a non-zero Code or worse and deploy failed
C1_Witness ==
    /\ NoEndpointAccepts
    /\ Raised(InvalidToken)
    /\ entry = "deploy"

-----------------------------------------------------------------------------
(* C2 *)

\* C2: deploy(bundlePath, environment) with a path that does not end in
\* ".zip" makes no network call and ends with the unsupported-artifact error.
C2_NonZipNoNetwork ==
    (entry = "deploy" /\ ~IsZipName(local_path)) =>
        /\ net = << >>
        /\ pc = "done" => Raised(Unsupported)

-----------------------------------------------------------------------------
(* C3 *)

Fetches == Calls("DescribePagesDeployments")

\* every status fetch made so far saw the deployment in Process
AllProcess == \A i \in Fetches : net[i].reply.Status = "Process"

\* The poller has made at most 60 status fetches; it fetched again only after
\* a fetch that saw Process; it left the loop at the first fetch that saw
\* another Status, handing over the record of that fetch; and it has failed
\* with the timeout error exactly after 60 fetches that all saw Process.
PollBounded ==
    LET f == Fetches
        n == Cardinality(f)
    IN  /\ n <= max_attempts
        /\ \A i \in f :
              net[i].reply.Status # "Process" =>
                 /\ \A j \in f : j <= i
                 /\ pc # "poll"
                 /\ net[i].reply.Status # "" => deployment_result.Status = net[i].reply.Status
        /\ pc = "poll" => attempt = n
        /\ Raised(Timeout) <=>
              (pc = "done" /\ n = max_attempts /\ \A i \in f : net[i].reply.Status = "Process")

\* a turn of the loop that stays in the loop uses up one of the 60 attempts
PollProgress ==
    (pc = "poll" /\ pc' = "poll") => (attempt' = attempt + 1 /\ attempt' <= max_attempts)

\* C3: the status poller terminates: every turn that polls again uses up one
\* of 60 attempts, at most 60 status fetches are made, the poller returns at
\* the first fetch whose Status is not Process, and 60 fetches that all saw
\* Process end in the timeout error instead of another fetch.
C3_PollTerminates == [](PollBounded) /\ [][PollProgress]_vars

\* sixty fetches saw Process and the operation ended with the timeout error
C3_Witness ==
    /\ Cardinality(Fetches) = max_attempts
    /\ AllProcess
    /\ Raised(Timeout)


-----------------------------------------------------------------------------
(* C4 and C5: the two stages called directly *)

\* positions of the requests the k-th direct stage call issued
Segment(k) == returns[k].from + 1 .. returns[k].to

CallsOf(k, stage) == k \in DOMAIN returns /\ returns[k].stage = stage

\* the k-th call was made with a hint and its lookup was answered
Looked(k) ==
    /\ project_name # None
    /\ returns[k].to > returns[k].from
    /\ net[returns[k].from + 1].body.Action = "DescribePagesProjects"
    /\ net[returns[k].from + 1].ok

\* ... with no project of that name
Unmatched(k) == Looked(k) /\ net[returns[k].from + 1].reply.ProjectIds = << >>

\* ... with at least one project of that name
Matched(k) == Looked(k) /\ net[returns[k].from + 1].reply.ProjectIds # << >>

\* positions in the k-th call of the requests with the given Action
SegmentCalls(k, action) == { i \in Segment(k) : net[i].body.Action = action }

\* C4: with a name hint that matches no project, _get_or_create_project
\* issues exactly one CreatePagesProject request, named after the hint, and
\* returns the ProjectId of its answer, while _get_cos_temp_token fails with
\* the project-not-found error and issues neither a CreatePagesProject nor a
\* DescribePagesCosTempToken request.
C4_UnmatchedHint ==
    \A k \in DOMAIN returns :
        Unmatched(k) =>
            IF returns[k].stage = "_get_or_create_project"
            THEN LET created == SegmentCalls(k, "CreatePagesProject")
                 IN  /\ Cardinality(created) = 1
                     /\ \A i \in created :
                           /\ net[i].body.Name = project_name
                           /\ (net[i].ok /\ net[i].reply.ProjectId # 0) =>
                                 /\ returns[k].kind = "returned"
                                 /\ returns[k].value = net[i].reply.ProjectId
                           /\ returns[k].kind = "returned" => net[i].ok
            ELSE /\ returns[k].kind = "raised"
                 /\ returns[k].value = ProjectNotFound(project_name)
                 /\ SegmentCalls(k, "CreatePagesProject") = { }
                 /\ SegmentCalls(k, "DescribePagesCosTempToken") = { }

\* the temp-token stage failed on the unknown hint and the project-selection
\* stage then created the project
C4_Witness ==
    /\ Len(returns) = 2
    /\ CallsOf(1, "_get_cos_temp_token") /\ Unmatched(1)
    /\ returns[1].kind = "raised"
    /\ CallsOf(2, "_get_or_create_project") /\ Unmatched(2)
    /\ returns[2].kind = "returned"

\* the platform's projects right after the k-th direct stage call
After(k) ==
    IF k < Len(returns) THEN returns[k + 1].before
    ELSE IF call # NoCall THEN call.before ELSE projects

\* C5: a call of _get_or_create_project whose hint matches an existing
\* project issues no CreatePagesProject request, returns the first match
\* and leaves the platform's projects as they were; two such calls on one
\* deployer return the same ProjectId.
C5_ResolverIdempotent ==
    \A k \in DOMAIN returns :
        (returns[k].stage = "_get_or_create_project" /\ Matched(k)) =>
            /\ SegmentCalls(k, "CreatePagesProject") = { }
            /\ returns[k].kind = "returned"
            /\ returns[k].value = net[returns[k].from + 1].reply.ProjectIds[1]
            /\ After(k) = returns[k].before
            /\ \A j \in DOMAIN returns :
                  (returns[j].stage = "_get_or_create_project" /\ Matched(j)) =>
                      returns[j].value = returns[k].value

\* two calls with a matching hint have returned
C5_Witness ==
    /\ Len(returns) = 2
    /\ CallsOf(1, "_get_or_create_project") /\ Matched(1)
    /\ CallsOf(2, "_get_or_create_project") /\ Matched(2)
    /\ returns[2].kind = "returned"

-----------------------------------------------------------------------------
(* C6, C7 and C8: the URL Resolver *)

\* the re-fetch of the project by id, if it was made
Refetches ==
    { i \in Calls("DescribePagesProjects") :
        \E f \in DOMAIN net[i].body.Filters : net[i].body.Filters[f].Name = "ProjectId" }

Enciphers == Calls("DescribePagesEncipherToken")

Returned(url) == outcome = [kind |-> "returned", value |-> url]

\* C6: in Production, when the deployment succeeded and the re-fetched
\* project lists a custom domain with Status Pass, the URL returned is
\* "https://" followed by the Domain of the first such entry, and no
\* DescribePagesEncipherToken request is issued.
C6_ProductionCustomDomain ==
    \A i \in Refetches :
        (/\ environment = "Production"
         /\ deployment_result.Status = "Success"
         /\ net[i].ok
         /\ net[i].reply.ProjectIds # << >>) =>
            LET domains == net[i].reply.CustomDomains
            IN  \A d \in DOMAIN domains :
                    (/\ domains[d].Status = "Pass"
                     /\ \A e \in 1 .. d - 1 : domains[e].Status # "Pass") =>
                        /\ Returned(<< "https://" >> \o domains[d].Domain)
                        /\ Enciphers = { }

\* a Production deployment whose project lists two verified domains returned
\* the first of them
C6_Witness ==
    /\ environment = "Production"
    /\ outcome.kind = "returned"
    /\ Len(project.CustomDomains) = 2
    /\ \A d \in DOMAIN project.CustomDomains : project.CustomDomains[d].Status = "Pass"
    /\ Enciphers = { }

\* PreviewUrl without its "https://" prefix
WithoutPrefix(u) == IF u # << >> /\ Head(u) = "https://" THEN Tail(u) ELSE u

\* C7: outside Production, a URL returned for a deployment with a non-empty
\* PreviewUrl is "https://" with the PreviewUrl less its "https://" prefix,
\* signed with the Token and Timestamp of the DescribePagesEncipherToken
\* answer for that domain, whatever custom domains the project has.
C7_PreviewSignedUrl ==
    (/\ environment # "Production"
     /\ outcome.kind = "returned"
     /\ deployment_result.PreviewUrl # None) =>
        /\ Cardinality(Enciphers) = 1
        /\ \A i \in Enciphers :
              /\ net[i].ok
              /\ net[i].body.Text = WithoutPrefix(deployment_result.PreviewUrl)
              /\ outcome.value =
                    << "https://" >> \o WithoutPrefix(deployment_result.PreviewUrl)
                    \o << "?eo_token=" >> \o net[i].reply.Token
                    \o << "&eo_time=" >> \o net[i].reply.Timestamp

\* a Preview deployment with a verified custom domain returned the signed
\* preview URL
C7_Witness ==
    /\ environment = "Preview"
    /\ Returned(<< "https://", "preview123.pages.dev", "?eo_token=", "abc",
                   "&eo_time=", "1700000000" >>)
    /\ \E d \in DOMAIN project.CustomDomains : project.CustomDomains[d].Status = "Pass"

\* C8: a URL is returned only for a deployment record whose Status is
\* Success; for another terminal Status the URL Resolver fails with the
\* deployment-failed error, whose message holds that Status, without
\* re-fetching the project and without a DescribePagesEncipherToken request.
C8_OnlySuccessGetsUrl ==
    /\ outcome.kind = "returned" => deployment_result.Status = "Success"
    /\ (deployment_result.Status \notin { "", "Success" }) =>
          /\ Refetches = { }
          /\ Enciphers = { }
          /\ pc # "get_url" =>
                /\ pc = "done"
                /\ outcome.kind = "raised"
                /\ \E t \in DOMAIN outcome.value : outcome.value[t] = deployment_result.Status

\* the poller handed over a Failed record and the operation ended
C8_Witness ==
    /\ deployment_result.Status = "Failed"
    /\ Raised(DeploymentFailed("Failed"))

-----------------------------------------------------------------------------
(* C9 *)

\* the file name at the end of a local path
NameIn(path) == SubSeq(path, Len(TempDir) + 2, Len(path))

\* C9: the TempBucketPath of every CreatePagesDeployment request is the key
\* the bundle was put under, and that key is the TargetPath of the
\* operation's temp-token answer, "/", and the base name of the bundle.
C9_KeyRoundTrip ==
    \A i \in Calls("CreatePagesDeployment") :
        /\ \E p \in OfKind("put") :
              /\ p < i
              /\ net[p].ok
              /\ net[p].body.Key = net[i].body.TempBucketPath
        /\ \E t \in Calls("DescribePagesCosTempToken") :
              /\ net[t].ok
              /\ net[i].body.TempBucketPath =
                    net[t].reply.TargetPath \o << "/" >> \o NameIn(local_path)

\* a bundle named in upper case was stored and its deployment registered
C9_Witness ==
    /\ Calls("CreatePagesDeployment") # { }
    /\ filename = << "SITE", ".ZIP" >>
    /\ deployment_id # 0

-----------------------------------------------------------------------------
(* C10 *)

Payloads == { i \in DOMAIN messages : messages[i].type = "json" }

\* C10: an invocation of the tool that has ended has yielded exactly one
\* structured payload: the success payload with the URL when one was
\* obtained, else the failure payload.
C10_OnePayload ==
    (entry = "_invoke" /\ pc = "done") =>
        /\ Cardinality(Payloads) = 1
        /\ \A i \in Payloads :
              IF outcome.kind = "returned"
              THEN messages[i].success /\ messages[i].url = outcome.value
              ELSE ~messages[i].success

-----------------------------------------------------------------------------
(* C11 *)

\* the probe that was answered with status 200 and Code 0
AcceptedProbes == { i \in OfKind("probe") : net[i].ok }

\* the calls that come before the probes: the download of the tool
BeforeProbes == Cardinality(OfKind("download"))

\* the probes follow the candidates in their order, one probe per candidate,
\* and a probe is made only after the one before it was rejected
ProbesInOrder ==
    LET off == BeforeProbes IN
    \A i \in OfKind("probe") :
        /\ i - off \in DOMAIN base_urls
        /\ net[i].url = base_urls[i - off]
        /\ i - off > 1 => (net[i - 1].kind = "probe" /\ ~net[i - 1].ok)
        /\ (~net[i].ok /\ i - off < Len(base_urls)) =>
              \/ pc = "check_base_url" /\ i = Len(net)
              \/ i < Len(net) /\ net[i + 1].kind = "probe"

\* the cached endpoint is empty until a candidate is accepted and is that
\* candidate afterwards; platform requests go to the cached endpoint
EndpointIsSelected ==
    LET sel == AcceptedProbes IN
    /\ InDeploy =>
          /\ sel = { } => base_api_url = ""
          /\ \A i \in sel : base_api_url = net[i].url
          /\ \A a \in OfKind("api") : \E i \in sel : i < a /\ net[a].url = net[i].url
    /\ \A a \in OfKind("api") : base_api_url # "" /\ net[a].url = base_api_url

\* a step leaves a cached endpoint as it is
EndpointKept == base_api_url # "" => base_api_url' = base_api_url

\* C11: the candidates are probed in their fixed order and probing stops at
\* the first one that answers 200 with Code 0; the cached endpoint is empty or
\* that candidate, never changes once set, and every later platform request
\* of the operation is sent to it.
C11_EndpointFixed ==
    /\ [](ProbesInOrder /\ EndpointIsSelected)
    /\ [][EndpointKept]_vars

\* the first candidate was rejected, the second accepted, and the operation
\* went on to register a deployment at the second
C11_Witness ==
    /\ entry = "deploy"
    /\ \E i \in AcceptedProbes : net[i].url = base_urls[2]
    /\ \E d \in Calls("CreatePagesDeployment") : net[d].url = base_urls[2]
    /\ base_api_url = base_urls[2]

-----------------------------------------------------------------------------
(* C12 *)

\* C12: the project a deployment is registered against is the project the
\* storage grant was scoped to, also when the platform's projects change
\* between the temp-token stage and the project-selection stage: with a hint
\* the ProjectId of the DescribePagesCosTempToken request is the ProjectId of
\* the CreatePagesDeployment request, without one its ProjectName is the Name
\* of the project that was created and deployed to.
C12_GrantProjectIsDeployed ==
    InDeploy =>
        \A d \in Calls("CreatePagesDeployment") :
            \E t \in Calls("DescribePagesCosTempToken") :
                /\ t < d
                /\ net[t].ok
                /\ IF project_name # None
                   THEN net[t].body.ProjectId = net[d].body.ProjectId
                   ELSE \E c \in Calls("CreatePagesProject") :
                           /\ net[c].ok
                           /\ net[c].body.Name = net[t].body.ProjectName
                           /\ net[c].reply.ProjectId = net[d].body.ProjectId

-----------------------------------------------------------------------------
(* C13 *)

\* the step issues one more network call, the calls made before it are kept
LogGrows ==
    \/ net' = net
    \/ /\ Len(net') = Len(net) + 1
       /\ SubSeq(net', 1, Len(net)) = net

\* the step issues a network call
Issues == Len(net') = Len(net) + 1

\* the step sends the platform API request with the given Action
Sends(action) ==
    /\ Issues
    /\ net'[Len(net')].kind = "api"
    /\ net'[Len(net')].body.Action = action

\* the step puts an object into storage
Puts == Issues /\ net'[Len(net')].kind = "put"

\* the operation's last remote call after endpoint resolution failed
LastCallFailed ==
    /\ InDeploy
    /\ net # << >>
    /\ net[Len(net)].kind \in { "api", "put" }
    /\ ~net[Len(net)].ok

\* a deploy that failed a remote call makes no call after it; a call is
\* issued again right after itself only when it is the status fetch and the
\* Status it fetched was "Process"
NoRetry ==
    /\ LogGrows
    /\ LastCallFailed => net' = net
    /\ (/\ InDeploy
        /\ Issues
        /\ net # << >>
        /\ net[Len(net)].kind \in { "api", "put" }
        /\ net'[Len(net')].body = net[Len(net)].body) =>
          /\ net[Len(net)].body.Action = "DescribePagesDeployments"
          /\ net[Len(net)].ok
          /\ net[Len(net)].reply.Status = "Process"

\* C13: after endpoint resolution the first remote call that fails (transport
\* error, status other than 200, Code other than 0), a status fetch of the
\* poller included, ends the operation in failure: no platform request and no
\* storage upload follows it, so it is not retried; the only request issued
\* again is the status fetch, and only after it fetched the Status "Process".
C13_FirstFailureEnds ==
    /\ [](LastCallFailed => (pc = "done" /\ outcome.kind = "raised"))
    /\ [][NoRetry]_vars

\* a status fetch failed after the poller had seen Process, and nothing
\* followed it
C13_Witness ==
    /\ LastCallFailed
    /\ attempt >= 1
    /\ net[Len(net)].body.Action = "DescribePagesDeployments"
    /\ outcome.kind = "raised"

-----------------------------------------------------------------------------
(* C14 *)

\* the lookups of the hinted name
NameLookups ==
    { i \in Calls("DescribePagesProjects") :
        net[i].body.Filters # << >> /\ net[i].body.Filters[1].Name = "Name" }

\* the step looks a project up by the given filter
SendsLookup(filter) ==
    /\ Sends("DescribePagesProjects")
    /\ net'[Len(net')].body.Filters # << >>
    /\ net'[Len(net')].body.Filters[1].Name = filter

\* the bundle was stored: a put succeeded
Stored == \E p \in OfKind("put") : net[p].ok

\* the ProjectId was obtained: a lookup listed it first or a
\* CreatePagesProject returned it
Obtained(pid) ==
    \/ \E l \in NameLookups :
          /\ net[l].ok
          /\ net[l].reply.ProjectIds # << >>
          /\ net[l].reply.ProjectIds[1] = pid
    \/ \E c \in Calls("CreatePagesProject") :
          net[c].ok /\ net[c].reply.ProjectId = pid

\* a status fetch returned a terminal record, the one handed to URL resolution
PolledTerminal ==
    \E f \in Fetches :
        /\ net[f].ok
        /\ net[f].reply.Status \notin { "", "Process" }
        /\ net[f].reply.Status = deployment_result.Status

\* what has been done when a step of deploy issues a call
StageOrder ==
    entry \in { "_invoke", "deploy" } =>
        /\ LogGrows
        /\ Puts => \E t \in Calls("DescribePagesCosTempToken") : net[t].ok
        /\ (SendsLookup("Name") /\ Calls("DescribePagesCosTempToken") # { }) => Stored
        /\ Sends("CreatePagesProject") => Stored
        /\ Sends("CreatePagesDeployment") =>
              /\ Stored
              /\ net'[Len(net')].body.ProjectId # 0
              /\ Obtained(net'[Len(net')].body.ProjectId)
        /\ Sends("DescribePagesDeployments") =>
              \E d \in Calls("CreatePagesDeployment") :
                  /\ net[d].ok
                  /\ net[d].reply.DeploymentId # 0
                  /\ net[d].reply.DeploymentId = deployment_id
                  /\ net[d].body.ProjectId = net'[Len(net')].body.ProjectId
        /\ (SendsLookup("ProjectId") \/ Sends("DescribePagesEncipherToken")) =>
              PolledTerminal

\* C14: the stages of deploy run in a fixed order: the temp-token request
\* precedes the put, the put precedes project resolution and creation,
\* CreatePagesDeployment is sent only after the put succeeded and a ProjectId
\* was obtained, every status fetch follows the CreatePagesDeployment and looks
\* for the DeploymentId it returned, and the project re-fetch and
\* DescribePagesEncipherToken are sent only after a status fetch returned a
\* terminal record.
C14_StageOrder == [][StageOrder]_vars

\* an operation with a hint ran through all its stages to the signed URL
C14_Witness ==
    /\ InDeploy
    /\ project_name # None
    /\ Enciphers # { }
    /\ Cardinality(NameLookups) = 2
    /\ outcome.kind = "returned"

-----------------------------------------------------------------------------
(* C15 *)

\* the status fetches answered with a page that does not list the deployment
AbsentFetches == { f \in Fetches : net[f].ok /\ net[f].reply.Status = "" }

NotFound == << "Deployment ", deployment_id, " not found" >>

\* the operation's last call is a status fetch answered with a page that does
\* not list the created DeploymentId
LastFetchAbsent ==
    /\ InDeploy
    /\ net # << >>
    /\ net[Len(net)].kind = "api"
    /\ net[Len(net)].body.Action = "DescribePagesDeployments"
    /\ net[Len(net)].ok
    /\ net[Len(net)].reply.Status = ""

\* C15: when a status fetch is answered with a page that does not list the
\* created DeploymentId, the operation has failed at once with the
\* deployment-not-found error, and no call follows that fetch: no further
\* status fetch and no URL resolution.
C15_AbsentDeploymentEnds ==
    /\ [](LastFetchAbsent => (pc = "done" /\ Raised(NotFound)))
    /\ [][LogGrows /\ (LastFetchAbsent => net' = net)]_vars

\* the deployment was seen in Process and was missing from a later page
C15_Witness ==
    /\ LastFetchAbsent
    /\ attempt >= 1
    /\ AbsentFetches # { }
    /\ Refetches = { }
    /\ Raised(NotFound)

-----------------------------------------------------------------------------
(* C16 *)

\* the project answered by re-fetch r gives no custom domain to return: the
\* environment is not Production, or no entry of its CustomDomains is Pass
NoCustomDomain(r) ==
    \/ environment # "Production"
    \/ \A d \in DOMAIN net[r].reply.CustomDomains :
          net[r].reply.CustomDomains[d].Status # "Pass"

\* the PreviewUrl less its prefix when that is not empty, else the
\* PresetDomain answered by re-fetch r
PreviewOrPreset(r) ==
    IF WithoutPrefix(deployment_result.PreviewUrl) # None
    THEN WithoutPrefix(deployment_result.PreviewUrl)
    ELSE net[r].reply.PresetDomain

NoDomain == << "Failed to get deployment domain" >>

NoAccessToken == << "Failed to get access token" >>

\* C16: for a successful deployment whose environment is not Production, or
\* whose project has no custom domain with Status Pass, the domain is the
\* PreviewUrl less its "https://" prefix when that is not empty and the
\* project's PresetDomain otherwise; when both are empty the operation fails
\* with the no-domain error and sends no DescribePagesEncipherToken; when the
\* token answer lacks Token or Timestamp it fails with the token error and
\* returns no URL.
C16_FallbackDomain ==
    (InDeploy /\ deployment_result.Status = "Success") =>
        \A r \in Refetches :
            (net[r].ok /\ net[r].reply.ProjectIds # << >> /\ NoCustomDomain(r)) =>
                LET d == PreviewOrPreset(r) IN
                IF d = None
                THEN /\ Raised(NoDomain)
                     /\ pc = "done"
                     /\ Enciphers = { }
                ELSE /\ domain = d
                     /\ \/ pc = "encipher_token" /\ Enciphers = { }
                        \/ /\ pc = "done"
                           /\ Cardinality(Enciphers) = 1
                           /\ \A e \in Enciphers :
                                 /\ net[e].body.Text = d
                                 /\ IF ~net[e].ok
                                    THEN outcome.kind = "raised"
                                    ELSE IF net[e].reply.Token = None \/ net[e].reply.Timestamp = None
                                    THEN Raised(NoAccessToken)
                                    ELSE Returned(<< "https://" >> \o d
                                                  \o << "?eo_token=" >> \o net[e].reply.Token
                                                  \o << "&eo_time=" >> \o net[e].reply.Timestamp)

\* a Production deployment without PreviewUrl, whose project has a pending
\* custom domain only, got the signed URL of the preset domain
C16_Witness ==
    /\ environment = "Production"
    /\ deployment_result = [Status |-> "Success", PreviewUrl |-> None]
    /\ project.CustomDomains # << >>
    /\ Returned(<< "https://", "preset.edgeone.app", "?eo_token=", "abc",
                   "&eo_time=", "1700000000" >>)

-----------------------------------------------------------------------------
(* C17 *)

\* the project name a temp-token or create-project request carries
NameOf(body) ==
    IF body.Action = "CreatePagesProject" THEN body.Name ELSE body.ProjectName

\* the requests of the first operation that name a project
Naming == Calls("DescribePagesCosTempToken") \cup Calls("CreatePagesProject")

\* C17: two deployment operations that run concurrently in one process, each
\* on its own EdgeOneDeployer without a name hint, share no project identity:
\* their generated temporary project names differ, so the storage scope
\* requested and the project created by one are never those named by the
\* other.
C17_OwnTempProject ==
    (entry = "deploy" /\ project_name = None /\ peer_pc # "start") =>
        /\ temp_project_name # peer_temp_project_name
        /\ \A i \in Naming, j \in DOMAIN peer_net :
              NameOf(net[i].body) # NameOf(peer_net[j].body)

-----------------------------------------------------------------------------
(* C18 *)

\* a step of deploy sends a request of the once-only stages only when none
\* was sent before, and puts the bundle once, under the TargetPath answered
\* to the one temp-token request
OnceOnly ==
    entry \in { "_invoke", "deploy" } =>
        /\ LogGrows
        /\ Sends("DescribePagesCosTempToken") => Calls("DescribePagesCosTempToken") = { }
        /\ Puts =>
              /\ OfKind("put") = { }
              /\ Cardinality(Calls("DescribePagesCosTempToken")) = 1
              /\ \A t \in Calls("DescribePagesCosTempToken") :
                    /\ net[t].ok
                    /\ net'[Len(net')].body.Key =
                          net[t].reply.TargetPath \o << "/" >> \o NameIn(local_path)
        /\ Sends("CreatePagesProject") => Calls("CreatePagesProject") = { }
        /\ Sends("CreatePagesDeployment") => Calls("CreatePagesDeployment") = { }
        /\ Sends("DescribePagesEncipherToken") => Enciphers = { }

\* C18: whatever the platform answers, one deployment operation sends at
\* most one DescribePagesCosTempToken request and makes at most one put, under
\* the TargetPath of that request's answer, and sends at most one
\* CreatePagesProject, one CreatePagesDeployment and one
\* DescribePagesEncipherToken request.
C18_AtMostOnce == [][OnceOnly]_vars

\* an operation without a hint went through every stage once and returned
\* the signed URL
C18_Witness ==
    /\ InDeploy
    /\ project_name = None
    /\ outcome.kind = "returned"
    /\ Cardinality(Calls("DescribePagesCosTempToken")) = 1
    /\ Cardinality(OfKind("put")) = 1
    /\ Cardinality(Calls("CreatePagesProject")) = 1
    /\ Cardinality(Calls("CreatePagesDeployment")) = 1
    /\ Cardinality(Enciphers) = 1

=============================================================================
